---- MODULE Spec2Model ----
(***************************************************************************)
(* send2kindle_bot: the long-polling loop of run_bot, the dispatch of one  *)
(* message by _process_message and the relay of one document by            *)
(* _handle_document (src/send2kindle_bot/bot.py), over the Telegram client *)
(* (telegram_client.py) and the mailer (mailer.py).                        *)
(*                                                                         *)
(* Python values are encoded uniformly:                                    *)
(*   Optional[int]  : <<>> is None, <<n>> is the integer n;                *)
(*   a JSON value   : [t, i, s] with t the type tag ("none", "int",        *)
(*                    "str"), i the integer and s the string (a sequence   *)
(*                    of characters);                                      *)
(*   an exception   : its class, "TelegramAPIError" or "Exception" (any    *)
(*                    other subclass of Exception); "ok" is a normal       *)
(*                    return.                                              *)
(*                                                                         *)
(* A batch is kept as the update_id of each of its updates; the message of *)
(* an update is drawn when the for loop reaches it (nothing reads it       *)
(* earlier). KeyboardInterrupt is taken where the loop waits, in the long  *)
(* poll of get_updates. calls is the log of the client, tempfile and       *)
(* mailer calls made for the update at hand, with their outcomes.          *)
(*                                                                         *)
(* Spec is run_bot with any Messaging Port, SpecCursorPort with a port     *)
(* that honours the offset. SpecStart feeds run_bot the same "/start"      *)
(* again and again and keeps what was done for each in history. SpecMail   *)
(* computes, for every file name a document may declare, the name and the  *)
(* content type of the attachment send_file_via_email builds.              *)
(***************************************************************************)
EXTENDS Integers, Sequences, FiniteSets, TLC

\* ---------------------------------------------------------------- bounds
MaxUpdateId == 2        \* update identifiers the server hands out: 1..MaxUpdateId
MaxBatch == 2           \* longest batch one get_updates call returns
MaxFetchFailures == 2   \* longest run of consecutive TelegramAPIError fetches
MaxTmpNames == 1        \* names the temporary directory can hold
MaxHistory == 2         \* finished updates the history keeps
MaxNameLen == 5         \* longest file name drawn from NameChars

\* ---------------------------------------------------------------- values
None == <<>>
Some(n) == <<n>>

JNone == [t |-> "none", i |-> 0, s |-> <<>>]
JInt(n) == [t |-> "int", i |-> n, s |-> <<>>]
JStr(str) == [t |-> "str", i |-> 0, s |-> str]

START == <<"/", "s", "t", "a", "r", "t">>
HELP == <<"/", "h", "e", "l", "p">>

\* startswith with its operands swapped: prefix.startswith(text)
startswith_Swapped(text, prefix) ==
    /\ Len(prefix) >= Len(text)
    /\ SubSeq(prefix, 1, Len(text)) = text

\* bot.py 109, 112: str.startswith
startswith(text, prefix) ==
    /\ Len(text) >= Len(prefix)
    /\ SubSeq(text, 1, Len(prefix)) = prefix

UserIds == {0, 1, 2}
UpdateIds == 1 .. MaxUpdateId
TmpNames == 1 .. MaxTmpNames

\* The "chat" and "from" entries of a message, reduced to the "id" the code
\* reads: an integer, or JNone when the entry is no dict or its id no int.
ChatVals == {JNone, JInt(7)}
FromVals == {JNone} \cup {JInt(u) : u \in UserIds}
TextVals == {JNone, JStr(START), JStr(HELP \o <<"@", "b">>),
             JStr(<<"/", "s", "t", "a", "r">>)}
\* The "document" entry: no dict, or a dict with its "file_id".
DocumentVals == {[isdict |-> FALSE, file_id |-> JNone],
                 [isdict |-> TRUE, file_id |-> JStr(<<"f">>)],
                 [isdict |-> TRUE, file_id |-> JNone]}

NoMessage == [isdict |-> FALSE, chat |-> JNone, from |-> JNone, text |-> JNone,
              document |-> [isdict |-> FALSE, file_id |-> JNone]]
Messages == [isdict : {TRUE}, chat : ChatVals, from : FromVals, text : TextVals,
             document : DocumentVals]

\* Outcomes of a call of the Telegram client that goes through _request
\* (or urlopen): a normal return, TelegramAPIError, or an exception the
\* client does not translate (a timeout while reading, a JSON decode error).
RequestOutcomes == {"ok", "TelegramAPIError", "Exception"}

VARIABLES
    pc,                 \* position of run_bot
    allowed_user_ids,   \* settings.allowed_user_ids
    offset,             \* run_bot's offset
    updates,            \* the batch being iterated: the update_id of each update
    idx,                \* number of updates of the batch the for loop has taken
    update_id,          \* update_id of the current update
    message,            \* message of the current update
    relay,              \* _handle_document for the current message:
                        \* "idle", "running", "returned", "raised"
    temp_path,          \* the temporary file of the current _handle_document
    exc,                \* exception in flight through the finally clause
    tmp_files,          \* temporary files that exist
    calls,              \* calls made for the current update, in order
    sent_offset,        \* offset passed to the latest get_updates call
    fetch_failures,     \* consecutive get_updates calls that raised TelegramAPIError
                        \* before the latest outcome of get_updates
    dispatched,         \* update identifiers _process_message was called for
    delivered,          \* send_file_via_email returned for the current message
    stop,               \* KeyboardInterrupt was raised
    document_file_name, \* document.get("file_name") of a document
    file_name,          \* _handle_document's file_name, the display_name of the mailer
    attachment,         \* the attachment send_file_via_email adds to its message
    history             \* what was done for each finished update, in order

vars == <<pc, allowed_user_ids, offset, updates, idx, update_id, message, relay,
          temp_path, exc, tmp_files, calls, sent_offset, fetch_failures,
          dispatched, delivered, stop, document_file_name, file_name,
          attachment, history>>

\* the variables of the attachment's name and type
MailVars == <<document_file_name, file_name, attachment>>

\* ---------------------------------------------------------------- helpers
\* bot.py 35-38
_get_chat_id(m) == IF m.chat.t = "int" THEN Some(m.chat.i) ELSE None

\* bot.py 41-44
_get_user_id(m) == IF m.from.t = "int" THEN Some(m.from.i) ELSE None

\* _is_authorized without the membership test
_is_authorized_NoMembership(allowed, user_id) ==
    /\ user_id # None
    /\ user_id[1] # 0

\* bot.py 31-32: bool(user_id and user_id in settings.allowed_user_ids)
_is_authorized(allowed, user_id) ==
    /\ user_id # None
    /\ user_id[1] # 0
    /\ user_id[1] \in allowed

\* NextOffset with "offset = update_id + 1" in place of the guarded assignment
NextOffset_NoMax(off, uid) ==
    IF uid = None THEN off ELSE Some(uid[1] + 1)

\* NextOffset with "next_offset = update_id"
NextOffset_OffByOne(off, uid) ==
    IF uid = None THEN off
    ELSE IF off = None \/ uid[1] > off[1] THEN Some(uid[1]) ELSE off

\* bot.py 143-146: offset after the for loop has read update_id
NextOffset(off, uid) ==
    IF uid = None THEN off
    ELSE LET next_offset == uid[1] + 1
         IN  IF off = None \/ next_offset > off[1] THEN Some(next_offset) ELSE off

Call(op, chat, text, outcome) ==
    [op |-> op, chat |-> chat, text |-> text, ok |-> (outcome = "ok")]

Min(S) == CHOOSE x \in S : \A y \in S : x <= y

\* ---------------------------------------------------------------- Init
Init ==
    /\ pc = "get_updates"
    /\ allowed_user_ids \in {{1}, {0, 1}}
    /\ offset = None
    /\ updates = <<>>
    /\ idx = 0
    /\ update_id = None
    /\ message = NoMessage
    /\ relay = "idle"
    /\ temp_path = None
    /\ exc = "ok"
    /\ tmp_files = {}
    /\ calls = <<>>
    /\ sent_offset = None
    /\ fetch_failures = 0
    /\ dispatched = {}
    /\ delivered = FALSE
    /\ stop = FALSE
    /\ document_file_name = JNone
    /\ file_name = None
    /\ attachment = None
    /\ history = <<>>

\* ---------------------------------------------------------------- get_updates
UpdateIdVals == {None} \cup {Some(u) : u \in UpdateIds}

\* Batches the Messaging Port may return: the update_id of each update (None
\* when the update carries none), the identifiers of one batch distinct.
AnyBatches ==
    {b \in UNION {[1 .. n -> UpdateIdVals] : n \in 0 .. MaxBatch} :
        \A j, k \in DOMAIN b : (j < k /\ b[j] # None) => b[j] # b[k]}

\* Batches of a port that honours the offset parameter of getUpdates: only
\* updates with an identifier >= offset.
CursorBatches(off) ==
    {b \in AnyBatches :
        \A j \in DOMAIN b : (b[j] # None /\ off # None) => b[j][1] >= off[1]}

\* the except clause of get_updates forgetting the offset
OffsetAfterFetchError_Reset(off) == None

\* bot.py 137-140: the offset the loop continues with after a failed fetch
OffsetAfterFetchError(off) == off

\* bot.py 136, 142: get_updates returned a list
GetUpdatesOk(batches) ==
    /\ pc = "get_updates"
    /\ \E b \in batches :
        /\ updates' = b
        /\ idx' = 0
    /\ sent_offset' = offset
    /\ pc' = "for_update"
    /\ UNCHANGED <<allowed_user_ids, MailVars, history, offset, update_id, message, relay, temp_path,
                   exc, tmp_files, calls, fetch_failures, dispatched,
                   delivered, stop>>

\* bot.py 137-140: get_updates raised TelegramAPIError; sleep and retry
GetUpdatesTelegramAPIError ==
    /\ pc = "get_updates"
    /\ fetch_failures < MaxFetchFailures
    /\ sent_offset' = offset
    /\ offset' = OffsetAfterFetchError(offset)
    /\ fetch_failures' = fetch_failures + 1
    /\ UNCHANGED <<pc, allowed_user_ids, MailVars, history, updates, idx, update_id, message, relay,
                   temp_path, exc, tmp_files, calls, dispatched,
                   delivered, stop>>

\* telegram_client.py 60-72 translates HTTPError and URLError only: any other
\* exception of urlopen, response.read or json.loads leaves get_updates as it
\* is, passes "except TelegramAPIError" (bot.py 137) and "except
\* KeyboardInterrupt" (bot.py 158) and ends run_bot.
GetUpdatesException ==
    /\ pc = "get_updates"
    /\ sent_offset' = offset
    /\ pc' = "crashed"
    /\ UNCHANGED <<allowed_user_ids, MailVars, history, offset, updates, idx, update_id, message, relay,
                   temp_path, exc, tmp_files, calls, fetch_failures, dispatched, delivered, stop>>

\* bot.py 158-159: the stop signal, taken while the loop waits in the long poll
KeyboardInterrupt ==
    /\ pc = "get_updates"
    /\ stop' = TRUE
    /\ pc' = "stopped"
    /\ UNCHANGED <<allowed_user_ids, MailVars, history, offset, updates, idx, update_id, message, relay,
                   temp_path, exc, tmp_files, calls, sent_offset, fetch_failures,
                   dispatched, delivered>>

\* ---------------------------------------------------------------- for loop
\* bot.py 142: the batch is exhausted, back to "while True"
EndOfBatch ==
    /\ pc = "for_update"
    /\ idx = Len(updates)
    /\ pc' = "get_updates"
    /\ fetch_failures' = 0
    /\ UNCHANGED <<allowed_user_ids, MailVars, history, offset, updates, idx, update_id, message, relay,
                   temp_path, exc, tmp_files, calls, sent_offset, dispatched, delivered, stop>>

\* bot.py 142-149: take the next update, advance offset, read its message,
\* one of msgs
NextUpdateFrom(msgs) ==
    /\ pc = "for_update"
    /\ idx < Len(updates)
    /\ idx' = idx + 1
    /\ update_id' = updates[idx + 1]
    /\ offset' = NextOffset(offset, updates[idx + 1])
    /\ \E m \in msgs :
        /\ message' = m
        /\ pc' = IF m.isdict THEN "process_message" ELSE "end_update"
    /\ fetch_failures' = 0
    /\ UNCHANGED <<allowed_user_ids, MailVars, history, updates, relay, temp_path, exc, tmp_files, calls,
                   sent_offset, dispatched, delivered, stop>>

\* bot.py 148: update.get("message") is any message or none
NextUpdate == NextUpdateFrom(Messages \cup {NoMessage})

\* bot.py 142: the body of the for loop is done; the locals of the iteration
\* are dead until the next one assigns them
EndUpdateLocals ==
    /\ pc = "end_update"
    /\ pc' = "for_update"
    /\ update_id' = None
    /\ message' = NoMessage
    /\ calls' = <<>>
    /\ relay' = "idle"
    /\ temp_path' = None
    /\ exc' = "ok"
    /\ delivered' = FALSE
    /\ UNCHANGED <<allowed_user_ids, MailVars, offset, updates, idx, tmp_files, sent_offset,
                   fetch_failures, dispatched, stop>>

EndUpdate == EndUpdateLocals /\ UNCHANGED history

\* the same step, with what was done for the update appended to the history
EndUpdateLogged ==
    /\ EndUpdateLocals
    /\ Len(history) < MaxHistory
    /\ history' = Append(history, [message |-> message, calls |-> calls, relay |-> relay,
                                   temp_path |-> temp_path, delivered |-> delivered])

\* ---------------------------------------------------------------- _process_message
\* bot.py 116-118
DocumentBranch(m) == IF m.document.isdict THEN "handle_document" ELSE "end_update"

\* the reply to a command without its return
AfterReply_FallThrough(m) == DocumentBranch(m)

\* bot.py 111, 114: return after the reply to a command
AfterReply(m) == "end_update"

\* bot.py 98-118: where _process_message goes first
Route(allowed, m) ==
    IF _get_chat_id(m) = None THEN "end_update"
    ELSE IF ~_is_authorized(allowed, _get_user_id(m)) THEN "send_unauthorized"
    ELSE IF m.text.t = "str" /\ startswith(m.text.s, START) THEN "send_start"
    ELSE IF m.text.t = "str" /\ startswith(m.text.s, HELP) THEN "send_help"
    ELSE DocumentBranch(m)

\* bot.py 151, 98-116: run_bot calls _process_message
ProcessMessage ==
    /\ pc = "process_message"
    /\ pc' = Route(allowed_user_ids, message)
    /\ IF update_id = None
       THEN UNCHANGED dispatched
       ELSE dispatched' = dispatched \cup {update_id[1]}
    /\ UNCHANGED <<allowed_user_ids, MailVars, history, offset, updates, idx, update_id, message, relay,
                   temp_path, exc, tmp_files, calls, sent_offset, fetch_failures,
                   delivered, stop>>

\* client.send_message(chat_id, text) with its outcome; on success control
\* goes to on_ok, an exception goes to on_raise
SendMessage(text, outcome, on_ok, on_raise) ==
    /\ calls' = Append(calls, Call("send_message", _get_chat_id(message)[1], text, outcome))
    /\ pc' = IF outcome = "ok" THEN on_ok ELSE on_raise

\* bot.py 51-53, 104-105
SendUnauthorized ==
    /\ pc = "send_unauthorized"
    /\ \E o \in RequestOutcomes :
        SendMessage("unauthorized", o, "end_update", "except_process")
    /\ UNCHANGED <<allowed_user_ids, MailVars, history, offset, updates, idx, update_id, message, relay,
                   temp_path, exc, tmp_files, sent_offset, fetch_failures, dispatched, delivered, stop>>

\* a welcome that is sent only to who was not served before
SendStartMessage_Once ==
    /\ pc = "send_start"
    /\ \E o \in RequestOutcomes :
        SendMessage(IF history = <<>> THEN "welcome" ELSE "help", o,
                    AfterReply(message), "except_process")
    /\ UNCHANGED <<allowed_user_ids, MailVars, history, offset, updates, idx, update_id, message, relay,
                   temp_path, exc, tmp_files, sent_offset, fetch_failures, dispatched, delivered, stop>>

\* bot.py 47-48, 110-111
SendStartMessage ==
    /\ pc = "send_start"
    /\ \E o \in RequestOutcomes :
        SendMessage("welcome", o, AfterReply(message), "except_process")
    /\ UNCHANGED <<allowed_user_ids, MailVars, history, offset, updates, idx, update_id, message, relay,
                   temp_path, exc, tmp_files, sent_offset, fetch_failures, dispatched, delivered, stop>>

\* bot.py 56-57, 113-114
SendHelpMessage ==
    /\ pc = "send_help"
    /\ \E o \in RequestOutcomes :
        SendMessage("help", o, AfterReply(message), "except_process")
    /\ UNCHANGED <<allowed_user_ids, MailVars, history, offset, updates, idx, update_id, message, relay,
                   temp_path, exc, tmp_files, sent_offset, fetch_failures, dispatched, delivered, stop>>

\* bot.py 152-156: the failure boundary of run_bot; an exception of its own
\* send_message is raised inside the except clause and ends run_bot
ExceptProcess ==
    /\ pc = "except_process"
    /\ IF _get_chat_id(message) # None
       THEN \E o \in RequestOutcomes :
                SendMessage("unexpected", o, "end_update", "crashed")
       ELSE /\ pc' = "end_update"
            /\ UNCHANGED calls
    /\ UNCHANGED <<allowed_user_ids, MailVars, history, offset, updates, idx, update_id, message, relay,
                   temp_path, exc, tmp_files, sent_offset, fetch_failures, dispatched, delivered, stop>>

\* ---------------------------------------------------------------- _handle_document
RelayUnchanged == <<allowed_user_ids, MailVars, history, offset, updates, idx, update_id, message,
                    sent_offset, fetch_failures, dispatched, stop>>

\* bot.py 66-67: file_id is no str
HandleDocumentNoFileId ==
    /\ pc = "handle_document"
    /\ message.document.file_id.t # "str"
    /\ relay' = "running"
    /\ pc' = "send_file_id_error"
    /\ UNCHANGED <<temp_path, exc, tmp_files, calls, delivered>>
    /\ UNCHANGED RelayUnchanged

\* bot.py 68-69
SendFileIdError ==
    /\ pc = "send_file_id_error"
    /\ \E o \in RequestOutcomes :
        /\ SendMessage("file_id_error", o, "end_update", "except_process")
        /\ relay' = IF o = "ok" THEN "returned" ELSE "raised"
    /\ UNCHANGED <<temp_path, exc, tmp_files, delivered>>
    /\ UNCHANGED RelayUnchanged

\* the allocation reached without the file_id check of bot.py 67
NamedTemporaryFileOk_NoCheck ==
    /\ pc = "handle_document"
    /\ TmpNames \ tmp_files # {}
    /\ LET name == Min(TmpNames \ tmp_files)
       IN  /\ temp_path' = Some(name)
           /\ tmp_files' = tmp_files \cup {name}
    /\ relay' = "running"
    /\ calls' = Append(calls, Call("NamedTemporaryFile", 0, "", "ok"))
    /\ pc' = "send_chat_action"
    /\ UNCHANGED <<exc, delivered>>
    /\ UNCHANGED RelayUnchanged

\* bot.py 74-75: NamedTemporaryFile(delete=False) creates the file under a
\* name no existing file has
NamedTemporaryFileOk ==
    /\ pc = "handle_document"
    /\ message.document.file_id.t = "str"
    /\ TmpNames \ tmp_files # {}
    /\ LET name == Min(TmpNames \ tmp_files)
       IN  /\ temp_path' = Some(name)
           /\ tmp_files' = tmp_files \cup {name}
    /\ relay' = "running"
    /\ calls' = Append(calls, Call("NamedTemporaryFile", 0, "", "ok"))
    /\ pc' = "send_chat_action"
    /\ UNCHANGED <<exc, delivered>>
    /\ UNCHANGED RelayUnchanged

\* bot.py 74: NamedTemporaryFile raises (OSError; FileExistsError when no name
\* is free), before the try statement: the exception leaves _handle_document
NamedTemporaryFileError ==
    /\ pc = "handle_document"
    /\ message.document.file_id.t = "str"
    /\ relay' = "raised"
    /\ calls' = Append(calls, Call("NamedTemporaryFile", 0, "", "Exception"))
    /\ pc' = "except_process"
    /\ UNCHANGED <<temp_path, exc, tmp_files, delivered>>
    /\ UNCHANGED RelayUnchanged

\* a try statement that swallows the exception of a step and goes on
TryCall_Continue(op, outcome, on_ok) ==
    /\ calls' = Append(calls, Call(op, 0, "", outcome))
    /\ pc' = on_ok

\* One call inside the try statement (bot.py 77-86): a normal return goes on
\* to on_ok, any Exception to the except clause (bot.py 87-89)
TryCall(op, outcome, on_ok) ==
    /\ calls' = Append(calls, Call(op, 0, "", outcome))
    /\ pc' = IF outcome = "ok" THEN on_ok ELSE "send_failure"

\* bot.py 78
SendChatAction ==
    /\ pc = "send_chat_action"
    /\ \E o \in RequestOutcomes : TryCall("send_chat_action", o, "get_file")
    /\ UNCHANGED <<relay, temp_path, exc, tmp_files, delivered>>
    /\ UNCHANGED RelayUnchanged

\* bot.py 79-82: get_file, and TelegramAPIError raised by the relay itself
\* when the result carries no file_path
GetFile ==
    /\ pc = "get_file"
    /\ \E o \in RequestOutcomes \cup {"no_file_path"} :
        TryCall("get_file", o, "download_file")
    /\ UNCHANGED <<relay, temp_path, exc, tmp_files, delivered>>
    /\ UNCHANGED RelayUnchanged

\* bot.py 84
DownloadFile ==
    /\ pc = "download_file"
    /\ \E o \in RequestOutcomes : TryCall("download_file", o, "send_file_via_email")
    /\ UNCHANGED <<relay, temp_path, exc, tmp_files, delivered>>
    /\ UNCHANGED RelayUnchanged

\* bot.py 85, mailer.py 13-37
SendFileViaEmail ==
    /\ pc = "send_file_via_email"
    /\ \E o \in {"ok", "Exception"} :
        /\ TryCall("send_file_via_email", o, "send_confirmation")
        /\ delivered' = (o = "ok")
    /\ UNCHANGED <<relay, temp_path, exc, tmp_files>>
    /\ UNCHANGED RelayUnchanged

\* bot.py 86: the confirmation is sent inside the try statement
SendConfirmation ==
    /\ pc = "send_confirmation"
    /\ \E o \in RequestOutcomes :
        SendMessage("confirmation", o, "unlink", "send_failure")
    /\ UNCHANGED <<relay, temp_path, exc, tmp_files, delivered>>
    /\ UNCHANGED RelayUnchanged

\* an except clause that re-raises after it has sent its notice
SendFailure_Reraise ==
    /\ pc = "send_failure"
    /\ \E o \in RequestOutcomes :
        /\ SendMessage("failure", o, "unlink", "unlink")
        /\ exc' = IF o = "ok" THEN "Exception" ELSE o
    /\ UNCHANGED <<relay, temp_path, tmp_files, delivered>>
    /\ UNCHANGED RelayUnchanged

\* bot.py 87-89: the except clause; an exception of its send_message is in
\* flight while the finally clause runs
SendFailure ==
    /\ pc = "send_failure"
    /\ \E o \in RequestOutcomes :
        /\ SendMessage("failure", o, "unlink", "unlink")
        /\ exc' = o
    /\ UNCHANGED <<relay, temp_path, tmp_files, delivered>>
    /\ UNCHANGED RelayUnchanged

\* a finally clause that deletes nothing
UnlinkResult_Keep(files, path, outcome) == files

\* bot.py 92: the files that exist after temp_path.unlink(missing_ok=True)
UnlinkResult(files, path, outcome) ==
    IF outcome = "ok" THEN files \ {path[1]} ELSE files

\* bot.py 90-94: the finally clause; an exception of unlink is logged and
\* dropped, then the exception in flight (if any) leaves _handle_document
Unlink ==
    /\ pc = "unlink"
    /\ \E o \in {"ok", "Exception"} :
        /\ tmp_files' = UnlinkResult(tmp_files, temp_path, o)
        /\ calls' = Append(calls, Call("unlink", 0, "", o))
    /\ relay' = IF exc = "ok" THEN "returned" ELSE "raised"
    /\ pc' = IF exc = "ok" THEN "end_update" ELSE "except_process"
    /\ UNCHANGED <<temp_path, exc, delivered>>
    /\ UNCHANGED RelayUnchanged

\* ---------------------------------------------------------------- specification
Handlers ==
    \/ GetUpdatesTelegramAPIError
    \/ GetUpdatesException
    \/ KeyboardInterrupt
    \/ EndOfBatch
    \/ NextUpdate
    \/ EndUpdate
    \/ ProcessMessage
    \/ SendUnauthorized
    \/ SendStartMessage
    \/ SendHelpMessage
    \/ ExceptProcess
    \/ HandleDocumentNoFileId
    \/ SendFileIdError
    \/ NamedTemporaryFileOk
    \/ NamedTemporaryFileError
    \/ SendChatAction
    \/ GetFile
    \/ DownloadFile
    \/ SendFileViaEmail
    \/ SendConfirmation
    \/ SendFailure
    \/ Unlink

\* The Messaging Port returns any batch.
Next == GetUpdatesOk(AnyBatches) \/ Handlers

Spec == Init /\ [][Next]_vars

\* Updates that are all the same "/start" of an identity the gate allows,
\* with a destination; what is done for each is kept in the history.
StartMessages(allowed) ==
    {m \in Messages : /\ _get_chat_id(m) # None
                      /\ _is_authorized(allowed, _get_user_id(m))
                      /\ m.text = JStr(START)}

\* the first "/start" is any of them, every later update repeats it
RepeatedStart(allowed, h) ==
    IF h = <<>> THEN StartMessages(allowed) ELSE {h[1].message}

NextStart ==
    \/ GetUpdatesOk(AnyBatches)
    \/ GetUpdatesTelegramAPIError
    \/ GetUpdatesException
    \/ KeyboardInterrupt
    \/ EndOfBatch
    \/ NextUpdateFrom(RepeatedStart(allowed_user_ids, history))
    \/ ProcessMessage
    \/ SendStartMessage
    \/ ExceptProcess
    \/ EndUpdateLogged

SpecStart == Init /\ [][NextStart]_vars

\* The Messaging Port honours the offset it is given.
NextCursorPort == GetUpdatesOk(CursorBatches(offset)) \/ Handlers

SpecCursorPort == Init /\ [][NextCursorPort]_vars

\* ---------------------------------------------------------------- the attachment
\* mailer.py 16: mimetypes.guess_type reads the tables of the mimetypes
\* module. A MIME type is kept as its parts around the "/".
DefaultName == <<"d", "o", "c", "u", "m", "e", "n", "t", ".", "b", "i", "n">>
BookEpub == <<"b", "o", "o", "k", ".", "e", "p", "u", "b">>
NotesTxtGz == <<"n", "o", "t", "e", "s", ".", "t", "x", "t", ".", "g", "z">>
NotesTz == <<"n", ".", "t", "z">>

OctetStream == <<"application", "/", "octet-stream">>

types_map ==
    (<<".", "c">> :> <<"text", "/", "plain">>)
    @@ (<<".", "t", "x", "t">> :> <<"text", "/", "plain">>)
    @@ (<<".", "t", "a", "r">> :> <<"application", "/", "x-tar">>)
    @@ (<<".", "b", "i", "n">> :> OctetStream)
    @@ (<<".", "e", "p", "u", "b">> :> <<"application", "/", "epub+zip">>)

encodings_map ==
    (<<".", "Z">> :> "compress") @@ (<<".", "g", "z">> :> "gzip")

suffix_map ==
    (<<".", "t", "z">> :> <<".", "t", "a", "r", ".", "g", "z">>)

\* str.lower, on the characters names are made of
LowerChar(c) == IF c = "C" THEN "c" ELSE IF c = "Z" THEN "z" ELSE c
lower(str) == [i \in DOMAIN str |-> LowerChar(str[i])]

\* posixpath.splitext: the extension begins at the last dot, unless only dots
\* come before it (names here hold no "/")
splitext(p) ==
    LET dots == {i \in DOMAIN p : p[i] = "."}
    IN  IF dots = {} THEN <<p, <<>>>>
        ELSE LET dotIndex == CHOOSE i \in dots : \A j \in dots : j <= i
             IN  IF \E i \in 1 .. dotIndex - 1 : p[i] # "."
                 THEN <<SubSeq(p, 1, dotIndex - 1), SubSeq(p, dotIndex, Len(p))>>
                 ELSE <<p, <<>>>>

\* MimeTypes.guess_type: the while loop over suffix_map
RECURSIVE ExpandSuffix(_)
ExpandSuffix(be) ==
    IF lower(be[2]) \in DOMAIN suffix_map
    THEN ExpandSuffix(splitext(be[1] \o suffix_map[lower(be[2])]))
    ELSE be

\* MimeTypes.guess_type(url), strict: <<type, encoding>>, each None or Some;
\* names here hold no ":" (no URL scheme)
guess_type(url) ==
    LET be == ExpandSuffix(splitext(url))
        encoded == be[2] \in DOMAIN encodings_map
        encoding == IF encoded THEN Some(encodings_map[be[2]]) ELSE None
        ext == lower(IF encoded THEN splitext(be[1])[2] ELSE be[2])
    IN  IF ext \in DOMAIN types_map
        THEN <<Some(types_map[ext]), encoding>>
        ELSE <<None, encoding>>

\* str.split("/", maxsplit=1) of a MIME type: <<maintype, subtype>>
SplitType(mime_type) ==
    LET k == CHOOSE i \in DOMAIN mime_type :
                 /\ mime_type[i] = "/"
                 /\ \A j \in 1 .. i - 1 : mime_type[j] # "/"
    IN  <<SubSeq(mime_type, 1, k - 1), SubSeq(mime_type, k + 1, Len(mime_type))>>

\* names a document may declare
NameChars == {"n", ".", "c", "C", "Z"}
RECURSIVE NamesOfLen(_)
NamesOfLen(n) ==
    IF n = 0 THEN {<<>>}
    ELSE {Append(str, c) : str \in NamesOfLen(n - 1), c \in NameChars}
DocumentNames ==
    UNION {NamesOfLen(n) : n \in 0 .. MaxNameLen} \cup {BookEpub, NotesTxtGz, NotesTz}
DocumentFileNames == {JNone} \cup {JStr(str) : str \in DocumentNames}

\* a document with its "file_name" has reached bot.py 71
InitMail ==
    /\ pc = "file_name"
    /\ allowed_user_ids = {1}
    /\ offset = None
    /\ updates = <<>>
    /\ idx = 0
    /\ update_id = None
    /\ message = NoMessage
    /\ relay = "running"
    /\ temp_path = None
    /\ exc = "ok"
    /\ tmp_files = {}
    /\ calls = <<>>
    /\ sent_offset = None
    /\ fetch_failures = 0
    /\ dispatched = {}
    /\ delivered = FALSE
    /\ stop = FALSE
    /\ document_file_name \in DocumentFileNames
    /\ file_name = None
    /\ attachment = None
    /\ history = <<>>

MailUnchanged == <<allowed_user_ids, offset, updates, idx, update_id, message, relay,
                   temp_path, exc, tmp_files, calls, sent_offset, fetch_failures,
                   dispatched, delivered, stop, document_file_name, history>>

\* bot.py 71: file_name = document.get("file_name") or "document.bin"
FileName ==
    /\ pc = "file_name"
    /\ file_name' = IF document_file_name.t = "str" /\ document_file_name.s # <<>>
                    THEN Some(document_file_name.s)
                    ELSE Some(DefaultName)
    /\ pc' = "send_file_via_email"
    /\ UNCHANGED attachment
    /\ UNCHANGED MailUnchanged

\* mailer.py 16-30, called at bot.py 85 with display_name = file_name
AddAttachment ==
    /\ pc = "send_file_via_email"
    /\ LET display_name == file_name[1]
           mime_type == guess_type(display_name)[1]
           parts == SplitType(IF mime_type # None THEN mime_type[1] ELSE OctetStream)
       IN  attachment' = Some([maintype |-> parts[1], subtype |-> parts[2],
                               filename |-> display_name])
    /\ pc' = "add_attachment_done"
    /\ UNCHANGED file_name
    /\ UNCHANGED MailUnchanged

NextMail == FileName \/ AddAttachment

SpecMail == InitMail /\ [][NextMail]_vars

\* ---------------------------------------------------------------- properties
Max(S) == CHOOSE x \in S : \A y \in S : x >= y

\* a <= b on Optional[int], None below every integer
OffsetLe(a, b) == a = None \/ (b # None /\ a[1] <= b[1])

\* the update identifiers of the batch at hand
BatchIds == {updates[k][1] : k \in {j \in DOMAIN updates : updates[j] # None}}

\* max(previous_cursor, max(ui) + 1)
ExpectedOffset(prev, ids) ==
    IF ids = {} THEN prev
    ELSE IF prev = None THEN Some(Max(ids) + 1)
    ELSE Some(Max({prev[1], Max(ids) + 1}))

BatchProcessed == pc = "for_update" /\ idx = Len(updates)

\* run_bot has returned or raised
LoopExited == pc \in {"stopped", "crashed"}

\* C1: no step decreases the cursor (an unset cursor counts as lower than
\* every identifier), and whenever a fetched batch has been processed the
\* cursor equals max(cursor the batch was fetched with, highest identifier of
\* the batch + 1).
C1_CursorMonotonic ==
    [][/\ OffsetLe(offset, offset')
       /\ BatchProcessed' => offset' = ExpectedOffset(sent_offset', BatchIds')]_vars

\* C1 witness: a batch of two updates fetched with a set cursor has been
\* processed, all its identifiers lie below that cursor and the cursor stayed.
C1_Witness ==
    /\ BatchProcessed
    /\ Len(updates) = 2
    /\ sent_offset # None
    /\ BatchIds # {}
    /\ Max(BatchIds) + 1 < sent_offset[1]
    /\ offset = sent_offset

C3_LoopExitsOnlyOnStop == LoopExited => stop

FailedFetch == pc = "get_updates" /\ pc' \in {"get_updates", "crashed"}

\* C4: a failed get_updates leaves the cursor, the dispatched updates and the
\* calls made untouched; the get_updates call that follows failed ones is
\* given the offset they were given; and the cursor changes only when the for
\* loop takes an update of a fetched batch.
C4_FailedFetchKeepsCursor ==
    [][/\ FailedFetch =>
            /\ offset' = offset
            /\ dispatched' = dispatched
            /\ calls' = calls
            /\ updates' = updates
       /\ (pc = "get_updates" /\ pc' # "stopped" /\ fetch_failures > 0)
            => sent_offset' = sent_offset
       /\ offset' # offset =>
            /\ pc = "for_update"
            /\ idx' = idx + 1
            /\ updates[idx'] # None]_vars

\* C4 witness: after two consecutive failed fetches with a set cursor the
\* third get_updates call succeeded with that cursor, the loop is at the head
\* of the returned batch.
C4_Witness ==
    /\ pc = "for_update"
    /\ idx = 0
    /\ fetch_failures = 2
    /\ Len(updates) > 0
    /\ offset # None
    /\ sent_offset = offset

\* number of calls made for the current update that satisfy P
CountCalls(P(_)) == Cardinality({k \in DOMAIN calls : P(calls[k])})

IsRelayNotice(c) ==
    c.op = "send_message" /\ c.text \in {"confirmation", "failure", "file_id_error"}
IsCommandReply(c) == c.op = "send_message" /\ c.text \in {"welcome", "help"}
IsWelcome(c) == c.op = "send_message" /\ c.text = "welcome"
IsUnexpected(c) == c.op = "send_message" /\ c.text = "unexpected"
IsUnlink(c) == c.op = "unlink"
IsAllocationFailure(c) == c.op = "NamedTemporaryFile" /\ ~c.ok
IsRelayStepFailure(c) ==
    c.op \in {"get_file", "download_file", "send_file_via_email"} /\ ~c.ok
\* calls of the relay proper, the notices left aside
IsRelayWork(c) ==
    c.op \in {"NamedTemporaryFile", "send_chat_action", "get_file", "download_file",
              "send_file_via_email", "unlink"}

\* control has left _handle_document
RelayLeft == relay \in {"returned", "raised"}

\* C5: once control has left the File Relay (the staged file allocated, or
\* the handle malformed), exactly one notice among confirmation, failure and
\* unreadable-handle was sent by it.
C5_ExactlyOneRelayNotice ==
    (RelayLeft /\ CountCalls(IsAllocationFailure) = 0) => CountCalls(IsRelayNotice) = 1

\* C6 as stated: once control has left the File Relay its staged file does not
\* exist, and no staged file exists between two events.
C6_NoStagedFileAfterRelay ==
    /\ (RelayLeft /\ temp_path # None) => temp_path[1] \notin tmp_files
    /\ pc \in {"for_update", "get_updates"} => tmp_files = {}

\* C6 amended: once control has left a File Relay invocation that allocated a
\* staged file, on whichever path, the deletion of that file was attempted
\* exactly once, as the last step of the relay, and the file exists
\* afterwards exactly if that deletion attempt failed; an event that invoked
\* no relay, or whose handle was malformed, has no staged file.
C6_CleanupAttempted ==
    /\ (RelayLeft /\ temp_path # None) =>
            /\ CountCalls(IsUnlink) = 1
            /\ \A k \in DOMAIN calls :
                IsUnlink(calls[k]) =>
                    /\ (temp_path[1] \in tmp_files) = ~calls[k].ok
                    /\ \A j \in DOMAIN calls : j > k => IsUnexpected(calls[j])
    /\ (relay = "idle" \/ message.document.file_id.t # "str") => temp_path = None

\* C6 witness: the failure notice of the except clause could not be sent, its
\* exception has left the File Relay, and the staged file is gone.
C6_Witness ==
    /\ relay = "raised"
    /\ temp_path # None
    /\ temp_path[1] \notin tmp_files
    /\ exc # "ok"
    /\ pc = "except_process"

\* the originating identity is absent or not in the AuthorizationSet
IdentityDenied(m) ==
    /\ m.isdict
    /\ _get_user_id(m) = None \/ _get_user_id(m)[1] \notin allowed_user_ids

IsDenial(c) ==
    /\ c.op = "send_message"
    /\ c.text = "unauthorized"
    /\ c.chat = _get_chat_id(message)[1]

\* what an event of a denied identity never causes
NoServiceForEvent ==
    /\ relay = "idle"
    /\ temp_path = None
    /\ ~delivered
    /\ CountCalls(IsCommandReply) = 0
    /\ CountCalls(IsRelayWork) = 0
    /\ CountCalls(IsRelayNotice) = 0
    /\ _get_chat_id(message) = None => calls = <<>>

\* C7 as stated: every call made for an event of a denied identity is the
\* denial notice to its destination.
C7_OnlyDenialNotice ==
    IdentityDenied(message) =>
        /\ NoServiceForEvent
        /\ \A k \in DOMAIN calls : IsDenial(calls[k])

\* C7 amended: an event of a denied identity causes no welcome or help reply,
\* typing indicator, resolve, download, staged file or delivery; the calls
\* made for it are at most the denial notice to its destination and, only
\* when sending that notice failed, the generic failure notice of the Poller
\* Loop to the same destination; none when no destination is resolvable.
C7_AuthorizationIsolation ==
    IdentityDenied(message) =>
        /\ NoServiceForEvent
        /\ Len(calls) <= 2
        /\ Len(calls) >= 1 => IsDenial(calls[1])
        /\ Len(calls) = 2 =>
            /\ ~calls[1].ok
            /\ IsUnexpected(calls[2])
            /\ calls[2].chat = calls[1].chat

\* C7 witness: an identity outside the AuthorizationSet sent a file with a
\* usable handle; the event is done and the one call made is the denial.
C7_Witness ==
    /\ pc = "end_update"
    /\ IdentityDenied(message)
    /\ message.from.t = "int"
    /\ message.document.file_id.t = "str"
    /\ Len(calls) = 1
    /\ IsDenial(calls[1])
    /\ calls[1].ok

\* C8: a failure of resolve, download or deliver never makes an exception
\* leave the File Relay.
C8_RelayFailureAbsorbed ==
    CountCalls(IsRelayStepFailure) > 0 => relay # "raised"

\* C9: when the dispatch of an event raised while updates of its batch remain,
\* the loop goes on to them: run_bot does not end there.
C9_RemainingEventsDispatched ==
    (CountCalls(IsUnexpected) > 0 /\ idx < Len(updates)) => pc # "crashed"

\* the Dispatcher is done with the current message
DispatchDone == message.isdict /\ pc \in {"end_update", "except_process", "crashed"}

\* the event has a destination, passed the Authorization Gate and its text
\* starts with "/start"
AuthorizedStart ==
    /\ message.isdict
    /\ _get_chat_id(message) # None
    /\ _is_authorized(allowed_user_ids, _get_user_id(message))
    /\ message.text.t = "str"
    /\ startswith(message.text.s, START)

\* C10: for every event at most one command reply is sent or the File Relay
\* is invoked once, never both; an authorized "/start" (an event that reached
\* and passed the Authorization Gate) has, once dispatched, exactly one
\* welcome notice sent, no help notice and no relay.
C10_OneOfReplyOrRelay ==
    /\ CountCalls(IsCommandReply) + (IF relay = "idle" THEN 0 ELSE 1) <= 1
    /\ relay = "idle" => (CountCalls(IsRelayWork) = 0 /\ CountCalls(IsRelayNotice) = 0)
    /\ (AuthorizedStart /\ DispatchDone) =>
            /\ CountCalls(IsWelcome) = 1
            /\ CountCalls(IsCommandReply) = 1
            /\ relay = "idle"

\* C10 witness: an authorized event carrying both the text "/start" and a
\* file with a usable handle is done: one welcome notice, no relay.
C10_Witness ==
    /\ pc = "end_update"
    /\ AuthorizedStart
    /\ message.document.file_id.t = "str"
    /\ Len(calls) = 1
    /\ IsWelcome(calls[1])
    /\ relay = "idle"

IsTyping(c) == c.op = "send_chat_action"
IsGetFile(c) == c.op = "get_file"
IsDownload(c) == c.op = "download_file"
IsDeliver(c) == c.op = "send_file_via_email"
IsConfirmation(c) == c.op = "send_message" /\ c.text = "confirmation"
IsFailureNotice(c) == c.op = "send_message" /\ c.text = "failure"
IsFileIdError(c) == c.op = "send_message" /\ c.text = "file_id_error"
IsSentNotice(c) == c.op = "send_message" /\ c.ok

\* C13: a failed typing indicator does not change the relay: once control
\* has left a relay whose typing-indicator call failed, the relay has gone on
\* to resolve the file, and the failure notice was sent only if resolve,
\* download or deliver failed.
C13_TypingIsBestEffort ==
    (RelayLeft /\ \E k \in DOMAIN calls : IsTyping(calls[k]) /\ ~calls[k].ok) =>
        /\ CountCalls(IsGetFile) = 1
        /\ CountCalls(IsFailureNotice) > 0 => CountCalls(IsRelayStepFailure) > 0

\* C14: the Delivery Port is called at most once and only after a successful
\* resolve and a successful download, in that order; download is called only
\* after a successful resolve; the confirmation is sent only after a
\* successful delivery.
C14_RelayStepOrder ==
    /\ CountCalls(IsDeliver) <= 1
    /\ \A k \in DOMAIN calls :
        /\ IsDownload(calls[k]) =>
              \E i \in 1 .. k - 1 : IsGetFile(calls[i]) /\ calls[i].ok
        /\ IsDeliver(calls[k]) =>
              \E i, j \in 1 .. k - 1 :
                  /\ i < j
                  /\ IsGetFile(calls[i]) /\ calls[i].ok
                  /\ IsDownload(calls[j]) /\ calls[j].ok
        /\ IsConfirmation(calls[k]) =>
              \E i \in 1 .. k - 1 : IsDeliver(calls[i]) /\ calls[i].ok
    /\ delivered => \E k \in DOMAIN calls : IsDeliver(calls[k]) /\ calls[k].ok

\* C14 witness: a relay that resolved, downloaded, delivered and confirmed
\* has returned.
C14_Witness ==
    /\ relay = "returned"
    /\ delivered
    /\ \E k \in DOMAIN calls : IsConfirmation(calls[k]) /\ calls[k].ok
    /\ CountCalls(IsDownload) = 1
    /\ CountCalls(IsGetFile) = 1

\* text begins with the characters of prefix
HasPrefix(text, prefix) ==
    /\ Len(text) >= Len(prefix)
    /\ \A i \in 1 .. Len(prefix) : text[i] = prefix[i]

\* the event has a destination, passed the Authorization Gate, and its text,
\* if any, is neither "/start"-prefixed nor "/help"-prefixed
AuthorizedOther ==
    /\ message.isdict
    /\ _get_chat_id(message) # None
    /\ _is_authorized(allowed_user_ids, _get_user_id(message))
    /\ message.text.t = "str" =>
          (~HasPrefix(message.text.s, START) /\ ~HasPrefix(message.text.s, HELP))

NoAction == calls = <<>> /\ relay = "idle" /\ temp_path = None /\ ~delivered

C16_GateIsMembership ==
    message.isdict =>
        (_is_authorized(allowed_user_ids, _get_user_id(message))
            <=> /\ _get_user_id(message) # None
                /\ _get_user_id(message)[1] \in allowed_user_ids)

\* C17: when the Delivery Port call of a relay succeeded, no failure notice
\* is sent for that event, neither by the File Relay nor by the failure
\* boundary of the Poller Loop.
C17_NoFailureNoticeAfterDelivery ==
    delivered => (CountCalls(IsFailureNotice) = 0 /\ CountCalls(IsUnexpected) = 0)

\* C18: for any single event at most one notice is successfully sent, all
\* kinds of notice counted together; the File Relay's failure notice and the
\* failure boundary's notice are never both sent successfully.
C18_AtMostOneNoticeSent ==
    /\ CountCalls(IsSentNotice) <= 1
    /\ \A i, j \in DOMAIN calls :
          (IsSentNotice(calls[i]) /\ IsSentNotice(calls[j])) => i = j

\* C18 witness: the File Relay's failure notice could not be sent, the
\* failure boundary's notice was: two attempts, one notice sent.
C18_Witness ==
    /\ pc = "end_update"
    /\ \E i, j \in DOMAIN calls :
          /\ i < j
          /\ IsFailureNotice(calls[i]) /\ ~calls[i].ok
          /\ IsUnexpected(calls[j]) /\ calls[j].ok
    /\ CountCalls(IsSentNotice) = 1

\* the event's file reference has no usable handle
MalformedHandle ==
    /\ message.isdict
    /\ message.document.isdict
    /\ message.document.file_id.t # "str"

\* C19: a File Relay invoked with a file reference without usable handle
\* makes one call, the unreadable-handle notice, and returns when that call
\* returned; it allocates no staged file and calls neither the typing
\* indicator, resolve, download nor the Delivery Port.
C19_MalformedHandleOnlyNotifies ==
    (MalformedHandle /\ relay # "idle") =>
        /\ temp_path = None
        /\ ~delivered
        /\ CountCalls(IsRelayWork) = 0
        /\ CountCalls(IsConfirmation) = 0
        /\ CountCalls(IsFailureNotice) = 0
        /\ relay = "running" => calls = <<>>
        /\ RelayLeft => (CountCalls(IsFileIdError) = 1 /\ IsFileIdError(calls[1]))
        /\ relay = "returned" <=> (calls # <<>> /\ calls[1].ok)
        /\ relay = "returned" => Len(calls) = 1

\* C19 witness: the relay of a file reference without file_id has sent its
\* notice and returned.
C19_Witness ==
    /\ pc = "end_update"
    /\ MalformedHandle
    /\ relay = "returned"
    /\ Len(calls) = 1
    /\ IsFileIdError(calls[1])
    /\ calls[1].ok
    /\ temp_path = None

\* what the history holds of one "/start": a welcome to its destination
\* first, a further call only after a failed send, and nothing of a relay
WelcomedOnly(h) ==
    /\ h.calls # <<>>
    /\ h.calls[1].op = "send_message"
    /\ h.calls[1].text = "welcome"
    /\ h.calls[1].chat = _get_chat_id(h.message)[1]
    /\ h.calls[1].ok => Len(h.calls) = 1
    /\ \A k \in DOMAIN h.calls : h.calls[k].op = "send_message"
    /\ \A k \in DOMAIN h.calls : k > 1 => h.calls[k].text # "welcome"
    /\ h.relay = "idle"
    /\ h.temp_path = None
    /\ ~h.delivered

IdenticalWelcomes ==
    /\ \A i \in DOMAIN history : WelcomedOnly(history[i])
    /\ \A i, j \in DOMAIN history :
          history[i].message = history[j].message =>
              /\ history[i].calls[1].chat = history[j].calls[1].chat
              /\ history[i].calls[1].text = history[j].calls[1].text
              /\ (history[i].calls[1].ok /\ history[j].calls[1].ok) =>
                    history[i] = history[j]

\* C12: the same "/start" dispatched twice for the same authorized identity
\* sends two identical welcome notices to the same destination and does
\* nothing else: no relay, no staged file, no delivery, and the dispatch
\* changes neither offset nor allowed_user_ids.
C12_IdempotentStart ==
    [][/\ IdenticalWelcomes'
       /\ pc \in {"process_message", "send_start"} =>
             UNCHANGED <<offset, allowed_user_ids, tmp_files, relay, delivered>>]_vars

\* C12 witness: two updates with the same "/start" from the same identity,
\* each carrying a file too, are done, with the same single welcome each.
C12_Witness ==
    /\ Len(history) = 2
    /\ history[1].message = history[2].message
    /\ history[1].message.document.isdict
    /\ history[1].calls[1].ok
    /\ history[2].calls[1].ok
    /\ history[1] = history[2]

\* the type the tables give the extension of name, the part from its last
\* dot on, and application/octet-stream when they give none
ExtensionType(name) ==
    LET ext == lower(splitext(name)[2])
    IN  IF ext \in DOMAIN types_map THEN types_map[ext] ELSE OctetStream

\* C11: the attachment handed to the Delivery Port is named exactly as the
\* document declares, and its content type is the one of that name's
\* extension, application/octet-stream when the extension is unknown.
C11_NameAndTypeFromExtension ==
    (attachment # None /\ document_file_name.t = "str" /\ document_file_name.s # <<>>) =>
        /\ attachment[1].filename = document_file_name.s
        /\ <<attachment[1].maintype, attachment[1].subtype>>
               = SplitType(ExtensionType(document_file_name.s))

====
